---- MODULE Spec2Model ----
(***************************************************************************)
(* Model of src/email_search.py: a Streamlit page that gates access behind *)
(* a shared password, compiles the sidebar filters into a parameterized    *)
(* BigQuery statement (search_emails), stores the result frame in the      *)
(* session and offers it for CSV export.                                   *)
(*                                                                         *)
(* Text conventions.  The search box content is a sequence of one-character*)
(* strings, so that str.split() and LIKE matching are computed.  Every     *)
(* other text value is a TLA+ string.  None is modelled by the empty       *)
(* string: the code only ever tests such values for truthiness.  A SQL     *)
(* statement is the sequence of its lexical fragments; an f-string         *)
(* interpolation is a fragment built with \o.  The backquotes BigQuery     *)
(* puts around identifiers are left out of the fragments.                  *)
(***************************************************************************)
EXTENDS Integers, Sequences, FiniteSets, TLC

VARIABLES
    SUMMARY,        \* configured summary table name, or None
    client,         \* st.cache_resource slot of get_bigquery_client
    session_state,  \* st.session_state: a function from its keys to values
    widgets,        \* current values of the sidebar / search widgets
    req,            \* arguments of the latest search_emails call
    out,            \* what the latest search_emails call built
    runLog,         \* what the latest script run did
    download        \* data of the download button of the latest run, or NoDownload

vars == <<SUMMARY, client, session_state, widgets, req, out, runLog, download>>

----------------------------------------------------------------------------
(* Bounds of the model *)

MaxQueryLen == 3
MaxRows == 2

(* Program constants *)

SliderMin == 10
SliderMax == 500
SliderDefault == 100

None == ""
PROJECT_ID == "proj"
DATASET == "mail"
TABLE == "emails"
SummaryName == "email_summaries"
APP_PASSWORD == "password123"

Truthy(v) == v # ""

----------------------------------------------------------------------------
(* Input domains *)

Whitespace == {" "}
QueryChars == {" ", "a", "%"}
SearchTypes == {"All fields", "Subject", "Body"}
TextFilters == {"", "bob", "x' OR '1'='1"}
Dates == {"2024-01-01", "2024-12-31"}
Categories == {"news", "spam"}
Limits == {SliderMin, SliderMax}

RECURSIVE SeqsUpTo(_, _)
SeqsUpTo(S, n) ==
    IF n = 0 THEN {<<>>}
    ELSE LET shorter == SeqsUpTo(S, n - 1)
         IN  shorter \cup {Append(s, c) : s \in shorter, c \in S}

Queries == SeqsUpTo(QueryChars, MaxQueryLen)

----------------------------------------------------------------------------
(* Generic helpers for Python list / str operations *)

Range(s) == {s[i] : i \in DOMAIN s}

\* sep.join(parts) on fragment sequences
RECURSIVE Join(_, _)
Join(parts, sep) ==
    IF Len(parts) = 0 THEN <<>>
    ELSE IF Len(parts) = 1 THEN parts[1]
    ELSE parts[1] \o <<sep>> \o Join(Tail(parts), sep)

\* str.split(): maximal runs of non-whitespace characters, in order
RECURSIVE SplitFrom(_, _, _)
SplitFrom(q, cur, acc) ==
    IF q = <<>> THEN (IF cur = <<>> THEN acc ELSE Append(acc, cur))
    ELSE IF Head(q) \in Whitespace
         THEN SplitFrom(Tail(q), <<>>, IF cur = <<>> THEN acc ELSE Append(acc, cur))
         ELSE SplitFrom(Tail(q), Append(cur, Head(q)), acc)

Split(q) == SplitFrom(q, <<>>, <<>>)

\* str(x) of a character sequence, as an f-string would render it
RECURSIVE Str(_)
Str(cs) == IF cs = <<>> THEN "" ELSE Head(cs) \o Str(Tail(cs))

ScalarQueryParameter(name, type, value) ==
    [name |-> name, type |-> type, value |-> value]

----------------------------------------------------------------------------
(* search_emails: statement and parameter construction *)

UseJoin(a) == a.show_summaries /\ Truthy(a.summary_table)

table_prefix(a) == IF UseJoin(a) THEN "e." ELSE ""

search_fields(a) ==
    IF a.search_type = "Subject" THEN <<table_prefix(a) \o "Subject">>
    ELSE IF a.search_type = "Body" THEN <<table_prefix(a) \o "Body">>
    ELSE <<table_prefix(a) \o "Subject", table_prefix(a) \o "Body">>

keywords(a) == Split(a.query)

KeywordName(i) == "keyword_" \o ToString(i)

field_condition_interpolated(field, i, keyword) ==
    <<"LOWER(", field, ")", "LIKE", "LOWER(", "'%" \o Str(keyword) \o "%'", ")">>

\* one element of the list comprehension of line 231
field_condition(field, i, keyword) ==
    <<"LOWER(", field, ")", "LIKE", "LOWER(", "@" \o KeywordName(i), ")">>

\* the loop body of lines 230-234: condition for the i-th keyword (i from 0)
keyword_condition(fields, i, keyword) ==
    <<"(">>
    \o Join([f \in DOMAIN fields |-> field_condition(fields[f], i, keyword)], "OR")
    \o <<")">>

keyword_conditions(a) ==
    [k \in DOMAIN keywords(a) |->
        keyword_condition(search_fields(a), k - 1, keywords(a)[k])]

keyword_params(a) ==
    [k \in DOMAIN keywords(a) |->
        ScalarQueryParameter(KeywordName(k - 1), "STRING",
                             <<"%">> \o keywords(a)[k] \o <<"%">>)]

category_applies_without_join(a) == Truthy(a.category_filter)

\* line 259
category_applies(a) ==
    Truthy(a.category_filter) /\ a.show_summaries /\ Truthy(a.summary_table)

\* where_conditions after line 261
where_conditions(a) ==
    (IF a.query # <<>> THEN <<Join(keyword_conditions(a), "AND")>> ELSE <<>>)
    \o (IF Truthy(a.sender_filter)
        THEN << <<"LOWER(", table_prefix(a) \o "From", ")", "LIKE",
                  "LOWER(", "@sender", ")">> >>
        ELSE <<>>)
    \o (IF Truthy(a.recipient_filter)
        THEN << <<"LOWER(", table_prefix(a) \o "To", ")", "LIKE",
                  "LOWER(", "@recipient", ")">> >>
        ELSE <<>>)
    \o (IF Truthy(a.date_from)
        THEN << <<table_prefix(a) \o "Date_Sent", ">=", "@date_from">> >>
        ELSE <<>>)
    \o (IF Truthy(a.date_to)
        THEN << <<table_prefix(a) \o "Date_Sent", "<=", "@date_to">> >>
        ELSE <<>>)
    \o (IF category_applies(a)
        THEN << <<"s.category", "=", "@category">> >>
        ELSE <<>>)

limit_param_default(limit) == ScalarQueryParameter("limit", "INT64", SliderDefault)

\* line 301
limit_param(limit) == ScalarQueryParameter("limit", "INT64", limit)

query_params_recipient_first(a) ==
    (IF a.query # <<>> THEN keyword_params(a) ELSE <<>>)
    \o (IF Truthy(a.recipient_filter)
        THEN <<ScalarQueryParameter("recipient", "STRING",
                                    "%" \o a.recipient_filter \o "%")>>
        ELSE <<>>)
    \o (IF Truthy(a.sender_filter)
        THEN <<ScalarQueryParameter("sender", "STRING", "%" \o a.sender_filter \o "%")>>
        ELSE <<>>)
    \o (IF Truthy(a.date_from)
        THEN <<ScalarQueryParameter("date_from", "DATE", a.date_from)>> ELSE <<>>)
    \o (IF Truthy(a.date_to)
        THEN <<ScalarQueryParameter("date_to", "DATE", a.date_to)>> ELSE <<>>)
    \o (IF category_applies(a)
        THEN <<ScalarQueryParameter("category", "STRING", a.category_filter)>>
        ELSE <<>>)
    \o <<limit_param(a.limit)>>

\* query_params after line 301
query_params(a) ==
    (IF a.query # <<>> THEN keyword_params(a) ELSE <<>>)
    \o (IF Truthy(a.sender_filter)
        THEN <<ScalarQueryParameter("sender", "STRING", "%" \o a.sender_filter \o "%")>>
        ELSE <<>>)
    \o (IF Truthy(a.recipient_filter)
        THEN <<ScalarQueryParameter("recipient", "STRING",
                                    "%" \o a.recipient_filter \o "%")>>
        ELSE <<>>)
    \o (IF Truthy(a.date_from)
        THEN <<ScalarQueryParameter("date_from", "DATE", a.date_from)>> ELSE <<>>)
    \o (IF Truthy(a.date_to)
        THEN <<ScalarQueryParameter("date_to", "DATE", a.date_to)>> ELSE <<>>)
    \o (IF category_applies(a)
        THEN <<ScalarQueryParameter("category", "STRING", a.category_filter)>>
        ELSE <<>>)
    \o <<limit_param(a.limit)>>

\* line 263
where_clause(a) ==
    IF where_conditions(a) # <<>> THEN Join(where_conditions(a), "AND") ELSE <<"1=1">>

TableRef(name) == PROJECT_ID \o "." \o DATASET \o "." \o name

\* lines 266-299
sql_query(a) ==
    IF UseJoin(a)
    THEN <<"SELECT", "e.id", ",", "e.Body", ",", "e.Subject", ",",
           "e.From", "as", "sender", ",", "e.To", "as", "recipient", ",",
           "e.Date_Sent", "as", "date", ",", "e.filename", ",",
           "s.summary", ",", "s.category",
           "FROM", TableRef(TABLE), "e",
           "LEFT JOIN", TableRef(a.summary_table), "s",
           "ON", "e.id", "=", "s.id",
           "WHERE">>
         \o where_clause(a)
         \o <<"ORDER BY", "e.Date_Sent", "DESC", "LIMIT", "@limit">>
    ELSE <<"SELECT", "id", ",", "Body", ",", "Subject", ",",
           "From", "as", "sender", ",", "To", "as", "recipient", ",",
           "Date_Sent", "as", "date", ",", "filename",
           "FROM", TableRef(TABLE),
           "WHERE">>
         \o where_clause(a)
         \o <<"ORDER BY", "Date_Sent", "DESC", "LIMIT", "@limit">>

\* everything search_emails has built when it reaches line 304
Build(a) ==
    [where_conditions |-> where_conditions(a),
     where_clause     |-> where_clause(a),
     sql_query        |-> sql_query(a),
     query_params     |-> query_params(a)]

NoCall ==
    [where_conditions |-> <<>>, where_clause |-> <<>>,
     sql_query |-> <<>>, query_params |-> <<>>]

----------------------------------------------------------------------------
(* Data frames and the CSV export *)

Columns(join) ==
    IF join
    THEN <<"id", "Body", "Subject", "sender", "recipient", "date", "filename",
           "summary", "category">>
    ELSE <<"id", "Body", "Subject", "sender", "recipient", "date", "filename">>

\* pd.DataFrame(): no columns, no rows (line 312)
EmptyDataFrame == [columns |-> <<>>, rows |-> <<>>]

\* the frame of a statement that returned n rows (line 308); a row is its id
Frame(a, n) == [columns |-> Columns(UseJoin(a)), rows |-> [i \in 1..n |-> i]]

\* DataFrame.empty
Empty(df) == Len(df.columns) = 0 \/ Len(df.rows) = 0

\* DataFrame.to_csv(index=False): the header line, then one line per row
to_csv(df) == <<df.columns>> \o [i \in DOMAIN df.rows |-> <<df.rows[i]>>]

NoDownload == <<>>

----------------------------------------------------------------------------
(* st.session_state *)

Has(ss, k) == k \in DOMAIN ss

Put(ss, k, v) == [x \in DOMAIN ss \cup {k} |-> IF x = k THEN v ELSE ss[x]]

Del(ss, k) == [x \in DOMAIN ss \ {k} |-> ss[x]]

EmptySession == [x \in {} |-> TRUE]

----------------------------------------------------------------------------
(* The password gate, lines 23-54 *)

password_entered_keeps_password(ss) ==
    IF ss["password"] = APP_PASSWORD
    THEN Put(ss, "password_correct", TRUE)
    ELSE Put(ss, "password_correct", FALSE)

\* the on_change callback, lines 26-32
password_entered(ss) ==
    IF ss["password"] = APP_PASSWORD
    THEN Del(Put(ss, "password_correct", TRUE), "password")
    ELSE Put(ss, "password_correct", FALSE)

check_password_any_entry(ss) == Has(ss, "password_correct")

\* the value check_password returns, lines 34-50
check_password(ss) ==
    IF ~Has(ss, "password_correct") THEN FALSE
    ELSE IF ~ss["password_correct"] THEN FALSE
    ELSE TRUE

\* st.text_input(..., key="password") registers the key with the empty default
RenderPasswordInput(ss) == IF Has(ss, "password") THEN ss ELSE Put(ss, "password", "")

----------------------------------------------------------------------------
(* One run of the script, top to bottom *)

DefaultWidgets ==
    [search_query      |-> <<>>,
     limit             |-> SliderDefault,
     search_type       |-> "All fields",
     selected_category |-> "All categories",
     sender_filter     |-> "",
     recipient_filter  |-> "",
     use_date_filter   |-> FALSE,
     date_from         |-> "2024-01-01",
     date_to           |-> "2024-12-31",
     show_summaries    |-> FALSE]

\* lines 115-130: the category chosen in the selectbox, when it is shown
category_filter(w, summary, categories) ==
    IF Truthy(summary) /\ categories = "rows" /\ w.selected_category # "All categories"
    THEN w.selected_category
    ELSE None

\* lines 153-170: show_summaries after the configuration and existence checks
show_summaries_checked(w, summary, check_ok) ==
    w.show_summaries /\ Truthy(summary) /\ check_ok

\* the argument list of line 332
SearchArgs(w, summary, categories, check_ok) ==
    LET show == show_summaries_checked(w, summary, check_ok)
        summary_table_exists == show
    IN  [query            |-> w.search_query,
         limit            |-> w.limit,
         search_type      |-> w.search_type,
         date_from        |-> IF w.use_date_filter THEN w.date_from ELSE None,
         date_to          |-> IF w.use_date_filter THEN w.date_to ELSE None,
         sender_filter    |-> w.sender_filter,
         recipient_filter |-> w.recipient_filter,
         show_summaries   |-> show /\ summary_table_exists,
         summary_table    |-> IF show /\ summary_table_exists THEN summary ELSE None,
         category_filter  |-> category_filter(w, summary, categories)]

export_allowed_on_any_frame(ss) == Has(ss, "results_df")

\* line 175
export_allowed(ss) == Has(ss, "results_df") /\ ~Empty(ss["results_df"])

\* lines 174-184: what the export button shows when pressed
ExportData(ss) == IF export_allowed(ss) THEN to_csv(ss["results_df"]) ELSE NoDownload

\* lines 304-312 behind st.cache_data: the frame search_emails returns.  The
\* cache is shared by all sessions, so a call may be answered from it with any
\* frame an earlier execution of the same call returned.
SearchResult(a, outcome) == IF outcome.ok THEN Frame(a, outcome.n) ELSE EmptyDataFrame

store_results_if_rows(ss, df) == IF Empty(df) THEN ss ELSE Put(ss, "results_df", df)

\* line 335
store_results(ss, df) == Put(ss, "results_df", df)

SearchOutcomes ==
    {[kind |-> k, ok |-> TRUE, n |-> n] : k \in {"hit", "run"}, n \in 0..MaxRows}
    \cup {[kind |-> k, ok |-> FALSE, n |-> 0] : k \in {"hit", "run"}}

RunChoices ==
    [client_ok  : BOOLEAN,
     categories : {"error", "empty", "rows"},
     check_ok   : BOOLEAN,
     search     : SearchOutcomes]

\* The state after a script run that starts from session ss with widget
\* values w; nd holds what the outside world answers during the run.
ScriptRun(ss, w, export_pressed, nd) ==
    IF ~check_password(ss)
    THEN \* lines 34-47, then st.stop() at line 54
         [session_state |-> RenderPasswordInput(ss), widgets |-> w, client |-> client,
          req |-> req, out |-> out, download |-> NoDownload,
          runLog |-> {"password_prompt", "stopped"}]
    ELSE IF client = "none" /\ ~nd.client_ok
    THEN \* bigquery.Client() raises at line 69: the run ends there
         [session_state |-> ss, widgets |-> w, client |-> client,
          req |-> req, out |-> out, download |-> NoDownload,
          runLog |-> {"client_failed"}]
    ELSE LET a == SearchArgs(w, SUMMARY, nd.categories, nd.check_ok)
             selectbox == Truthy(SUMMARY) /\ nd.categories = "rows"
             exported == IF export_pressed THEN ExportData(ss) ELSE NoDownload
             df == SearchResult(a, nd.search)
         IN  [session_state |-> store_results(ss, df),
              widgets |-> IF selectbox THEN w
                          ELSE [w EXCEPT !.selected_category = "All categories"],
              client |-> "cached",
              req |-> a,
              out |-> Build(a),
              download |-> exported,
              runLog |->
                  {"widgets_rendered", "results_stored"}
                  \cup (IF client = "none" THEN {"client_created"} ELSE {})
                  \cup (IF Truthy(SUMMARY) THEN {"categories_query"} ELSE {})
                  \cup (IF selectbox THEN {"category_selectbox"} ELSE {})
                  \cup (IF w.show_summaries /\ Truthy(SUMMARY)
                        THEN {"summary_check_query"} ELSE {})
                  \cup (IF export_pressed THEN {"export_pressed"} ELSE {})
                  \cup (IF export_pressed /\ exported # NoDownload
                        THEN {"download_offered"} ELSE {})
                  \cup (IF export_pressed /\ exported = NoDownload
                        THEN {"export_warning"} ELSE {})
                  \cup (IF nd.search.kind = "run" THEN {"search_query"} ELSE {"cache_hit"})
                  \cup (IF nd.search.kind = "run" /\ ~nd.search.ok
                        THEN {"query_error"} ELSE {})]

Apply(r) ==
    /\ session_state' = r.session_state
    /\ widgets' = r.widgets
    /\ client' = r.client
    /\ req' = r.req
    /\ out' = r.out
    /\ download' = r.download
    /\ runLog' = r.runLog
    /\ UNCHANGED SUMMARY

----------------------------------------------------------------------------
(* The session: user events, each followed by a script run *)

Passwords == {APP_PASSWORD, "letmein", ""}

\* widget values a user of the modelled session picks
SessionQueries == {<<>>, <<"a">>}
SessionCategories == {"All categories", "news"}

Init ==
    /\ SUMMARY \in {None, SummaryName}
    /\ client = "none"
    /\ session_state = EmptySession
    /\ widgets = DefaultWidgets
    /\ req = SearchArgs(DefaultWidgets, None, "error", FALSE)
    /\ out = NoCall
    /\ runLog = {}
    /\ download = NoDownload

\* the browser opens the page
FirstRun ==
    /\ runLog = {}
    /\ \E nd \in RunChoices : Apply(ScriptRun(session_state, widgets, FALSE, nd))

\* the user submits the password box: the callback runs, then the script
EnterPassword ==
    /\ "password_prompt" \in runLog
    /\ \E p \in Passwords \ {session_state["password"]} :
         \E nd \in RunChoices :
            Apply(ScriptRun(password_entered(Put(session_state, "password", p)),
                            widgets, FALSE, nd))

ChangeQuery ==
    /\ "widgets_rendered" \in runLog
    /\ \E q \in SessionQueries \ {widgets.search_query} :
         \E nd \in RunChoices :
            Apply(ScriptRun(session_state, [widgets EXCEPT !.search_query = q], FALSE, nd))

ChangeCategory ==
    /\ "category_selectbox" \in runLog
    /\ \E c \in SessionCategories \ {widgets.selected_category} :
         \E nd \in RunChoices :
            Apply(ScriptRun(session_state, [widgets EXCEPT !.selected_category = c],
                            FALSE, nd))

ToggleShowSummaries ==
    /\ "widgets_rendered" \in runLog
    /\ \E nd \in RunChoices :
         Apply(ScriptRun(session_state,
                         [widgets EXCEPT !.show_summaries = ~widgets.show_summaries],
                         FALSE, nd))

PressSearch ==
    /\ "widgets_rendered" \in runLog
    /\ \E nd \in RunChoices : Apply(ScriptRun(session_state, widgets, FALSE, nd))

PressExport ==
    /\ "widgets_rendered" \in runLog
    /\ \E nd \in RunChoices : Apply(ScriptRun(session_state, widgets, TRUE, nd))

\* a rerun without any widget change (the Rerun menu entry, a View Full button)
Rerun ==
    /\ runLog # {}
    /\ \E nd \in RunChoices : Apply(ScriptRun(session_state, widgets, FALSE, nd))

Next ==
    \/ FirstRun
    \/ EnterPassword
    \/ ChangeQuery
    \/ ChangeCategory
    \/ ToggleShowSummaries
    \/ PressSearch
    \/ PressExport
    \/ Rerun

Spec == Init /\ [][Next]_vars

----------------------------------------------------------------------------
(* search_emails on its own: every argument list the page can pass *)

DatePairs == {<<None, None>>} \cup {<<x, y>> : x \in Dates, y \in Dates}

Requests ==
    {[query            |-> q,
      limit            |-> l,
      search_type      |-> t,
      date_from        |-> d[1],
      date_to          |-> d[2],
      sender_filter    |-> s,
      recipient_filter |-> r,
      show_summaries   |-> j,
      summary_table    |-> IF j THEN SummaryName ELSE None,
      category_filter  |-> c] :
        q \in Queries, l \in Limits, t \in SearchTypes, d \in DatePairs,
        s \in TextFilters, r \in TextFilters, j \in BOOLEAN,
        c \in {None} \cup Categories}

InitBuild ==
    /\ SUMMARY = SummaryName
    /\ client = "cached"
    /\ session_state = Put(EmptySession, "password_correct", TRUE)
    /\ widgets = DefaultWidgets
    /\ req \in Requests
    /\ out = NoCall
    /\ runLog = {}
    /\ download = NoDownload

\* lines 208-301 of search_emails on the arguments req
BuildStatement ==
    /\ out = NoCall
    /\ out' = Build(req)
    /\ UNCHANGED <<SUMMARY, client, session_state, widgets, req, runLog, download>>

NextBuild == BuildStatement

SpecBuild == InitBuild /\ [][NextBuild]_vars

----------------------------------------------------------------------------
(* How BigQuery reads the keyword predicate: LOWER, LIKE, AND, OR, brackets *)

Last(s) == s[Len(s)]

LowerChar(c) == IF c = "A" THEN "a" ELSE IF c = "B" THEN "b" ELSE c

Lower(cs) == [i \in DOMAIN cs |-> LowerChar(cs[i])]

\* text LIKE pat: % matches any run of characters, _ exactly one
RECURSIVE Like(_, _)
Like(text, pat) ==
    IF pat = <<>> THEN text = <<>>
    ELSE IF Head(pat) = "%"
         THEN Like(text, Tail(pat)) \/ (text # <<>> /\ Like(Tail(text), pat))
    ELSE IF Head(pat) = "_"
         THEN text # <<>> /\ Like(Tail(text), Tail(pat))
    ELSE text # <<>> /\ Head(text) = Head(pat) /\ Like(Tail(text), Tail(pat))

\* the parts of s between the occurrences of sep that are outside all brackets
RECURSIVE TopSplitFrom(_, _, _, _, _)
TopSplitFrom(s, sep, depth, cur, acc) ==
    IF s = <<>> THEN Append(acc, cur)
    ELSE IF Head(s) = sep /\ depth = 0
         THEN TopSplitFrom(Tail(s), sep, depth, <<>>, Append(acc, cur))
    ELSE TopSplitFrom(Tail(s), sep,
                      IF Head(s) \in {"(", "LOWER("} THEN depth + 1
                      ELSE IF Head(s) = ")" THEN depth - 1 ELSE depth,
                      Append(cur, Head(s)), acc)

TopSplit(s, sep) == TopSplitFrom(s, sep, 0, <<>>, <<>>)

ColumnOf(field) == IF field \in {"Subject", "e.Subject"} THEN "Subject" ELSE "Body"

ParamValue(params, placeholder) ==
    (CHOOSE p \in Range(params) : "@" \o p.name = placeholder).value

\* LOWER(field) LIKE LOWER(@name) on one row
EvalAtom(s, row, params) ==
    Like(Lower(row[ColumnOf(s[2])]), Lower(ParamValue(params, s[6])))

\* OR binds weaker than AND; a bracketed expression is evaluated on its own
RECURSIVE EvalPredicate(_, _, _)
EvalPredicate(s, row, params) ==
    LET ors == TopSplit(s, "OR")
        ands == TopSplit(s, "AND")
    IN  IF Len(ors) > 1
        THEN \E i \in DOMAIN ors : EvalPredicate(ors[i], row, params)
        ELSE IF Len(ands) > 1
        THEN \A i \in DOMAIN ands : EvalPredicate(ands[i], row, params)
        ELSE IF Head(s) = "(" /\ Last(s) = ")"
        THEN EvalPredicate(SubSeq(s, 2, Len(s) - 1), row, params)
        ELSE EvalAtom(s, row, params)

\* cs occurs in text as a substring
Contains(text, cs) ==
    \E i \in 0..(Len(text) - Len(cs)) : SubSeq(text, i + 1, i + Len(cs)) = cs

FieldTexts == {<<>>, <<"a">>, <<"A">>, <<"b">>, <<"b", "a">>}

Rows == [Subject : FieldTexts, Body : FieldTexts]

SelectedColumns(search_type) ==
    IF search_type = "Subject" THEN {"Subject"}
    ELSE IF search_type = "Body" THEN {"Body"}
    ELSE {"Subject", "Body"}

----------------------------------------------------------------------------
(* Helpers of the statements about search_emails *)

Built == out # NoCall

ParamNames ==
    {KeywordName(i) : i \in 0..MaxQueryLen}
    \cup {"sender", "recipient", "date_from", "date_to", "category", "limit"}

PlaceholderFragments == {"@" \o n : n \in ParamNames}

IsPlaceholder(f) == f \in PlaceholderFragments

Placeholders(sql) == SelectSeq(sql, IsPlaceholder)

\* s without the repetitions of an element after its first occurrence
RECURSIVE FirstOccurrences(_)
FirstOccurrences(s) ==
    IF s = <<>> THEN <<>>
    ELSE LET front == FirstOccurrences(SubSeq(s, 1, Len(s) - 1))
         IN  IF Last(s) \in Range(front) THEN front ELSE Append(front, Last(s))

CanonicalOrder ==
    [i \in 1..(MaxQueryLen + 1) |-> KeywordName(i - 1)]
    \o <<"sender", "recipient", "date_from", "date_to", "category", "limit">>

Rank(name) == CHOOSE i \in DOMAIN CanonicalOrder : CanonicalOrder[i] = name

Count(s, x) == Cardinality({i \in DOMAIN s : s[i] = x})

\* a query with as many tokens as q, each the one-character token "a"; a
\* query without tokens stays empty or becomes one blank
CanonicalQuery(q) ==
    IF Split(q) = <<>> THEN (IF q = <<>> THEN <<>> ELSE <<" ">>)
    ELSE Join([k \in DOMAIN Split(q) |-> <<"a">>], " ")

\* The representative of the requests that have the shape of a: as many
\* keyword tokens, the same filters present, the same search_type and join
\* setting, with fixed values in place of the user's.  Requests that differ
\* only in the content of user-supplied values have the same representative.
Canonical(a) ==
    [a EXCEPT !.query = CanonicalQuery(a.query),
              !.limit = SliderMin,
              !.sender_filter = IF Truthy(a.sender_filter) THEN "bob" ELSE None,
              !.recipient_filter = IF Truthy(a.recipient_filter) THEN "bob" ELSE None,
              !.date_from = IF Truthy(a.date_from) THEN "2024-01-01" ELSE None,
              !.date_to = IF Truthy(a.date_to) THEN "2024-01-01" ELSE None,
              !.category_filter = IF Truthy(a.category_filter) THEN "news" ELSE None]

HasParam(params, name, type, value) ==
    \E i \in DOMAIN params :
        params[i] = ScalarQueryParameter(name, type, value)

FilterClauseCount(a) ==
    Cardinality({f \in {"sender_filter", "recipient_filter", "date_from", "date_to"} :
                    Truthy(a[f])})
    + (IF Truthy(a.category_filter) /\ a.show_summaries /\ Truthy(a.summary_table)
       THEN 1 ELSE 0)

----------------------------------------------------------------------------
(* Statements about search_emails, checked under SpecBuild *)

\* C1: the statement text does not depend on the user-supplied values: the
\* statement of every request is character for character the statement of the
\* representative of its shape, so two requests that differ only in the
\* content of keyword tokens, sender, recipient, dates, category or limit have
\* the identical statement; and each value present is the value of a parameter.
StatementIndependentOfValues ==
    Built =>
        /\ out.sql_query = sql_query(Canonical(req))
        /\ \A k \in DOMAIN Split(req.query) :
              HasParam(out.query_params, KeywordName(k - 1), "STRING",
                       <<"%">> \o Split(req.query)[k] \o <<"%">>)
        /\ Truthy(req.sender_filter) =>
              HasParam(out.query_params, "sender", "STRING",
                       "%" \o req.sender_filter \o "%")
        /\ Truthy(req.recipient_filter) =>
              HasParam(out.query_params, "recipient", "STRING",
                       "%" \o req.recipient_filter \o "%")
        /\ Truthy(req.date_from) =>
              HasParam(out.query_params, "date_from", "DATE", req.date_from)
        /\ Truthy(req.date_to) =>
              HasParam(out.query_params, "date_to", "DATE", req.date_to)
        /\ HasParam(out.query_params, "limit", "INT64", req.limit)

\* C1 witness: a compiled request with two keyword tokens and a sender filter
\* holding SQL quote characters
WitnessValuesBound ==
    /\ Built
    /\ Len(Split(req.query)) = 2
    /\ req.sender_filter = "x' OR '1'='1"
    /\ Canonical(req) # req

\* C2: the parameter list is in the order in which the placeholders first
\* appear in the statement, which is the order keyword_0.., sender, recipient,
\* date_from, date_to, category, limit; every placeholder has exactly one
\* parameter of its name and every parameter name occurs in the statement.
ParamsFollowPlaceholders ==
    Built =>
        /\ FirstOccurrences(Placeholders(out.sql_query))
              = [i \in DOMAIN out.query_params |-> "@" \o out.query_params[i].name]
        /\ \A i, j \in DOMAIN out.query_params :
              i < j => Rank(out.query_params[i].name) < Rank(out.query_params[j].name)

\* C2 witness: keywords searched in both fields with sender, recipient, both
\* dates and the category present
WitnessAllPlaceholders ==
    /\ Built
    /\ Len(out.query_params) = 8
    /\ req.search_type = "All fields"

\* C3 as stated: a row satisfies the keyword part of the predicate iff every
\* token occurs (case folded) in at least one selected field.
KeywordPredicateIsContainment ==
    (Built /\ Split(req.query) # <<>>) =>
        \A row \in Rows :
            EvalPredicate(out.where_conditions[1], row, out.query_params)
            <=> \A k \in DOMAIN Split(req.query) :
                    \E f \in SelectedColumns(req.search_type) :
                        Contains(Lower(row[f]), Lower(Split(req.query)[k]))

\* C4 as stated: the keyword clause is a conjunct iff the query has a token; a
\* query without tokens adds no conjunct and no parameter, and with no other
\* filter the predicate is 1=1.
KeywordClauseIffTokens ==
    Built =>
        /\ (Len(out.where_conditions) > FilterClauseCount(req))
              <=> (Split(req.query) # <<>>)
        /\ Split(req.query) = <<>> =>
              \A i \in DOMAIN out.query_params :
                  out.query_params[i].name \notin {KeywordName(k) : k \in 0..MaxQueryLen}
        /\ (Split(req.query) = <<>> /\ FilterClauseCount(req) = 0) =>
              out.where_clause = <<"1=1">>

\* C5: the category clause and its parameter are present iff a category is
\* set and the summary join is enabled; with the join disabled a category
\* changes neither statement nor parameters, and the statement refers to the
\* alias s only when it has the LEFT JOIN that defines s.
CategoryOnlyWithJoin ==
    Built =>
        LET wanted == Truthy(req.category_filter) /\ req.show_summaries
                      /\ Truthy(req.summary_table)
            uncategorised == [req EXCEPT !.category_filter = None]
        IN  /\ (<<"s.category", "=", "@category">> \in Range(out.where_conditions))
                  <=> wanted
            /\ ("@category" \in Range(out.sql_query)) <=> wanted
            /\ (\E i \in DOMAIN out.query_params : out.query_params[i].name = "category")
                  <=> wanted
            /\ wanted => HasParam(out.query_params, "category", "STRING",
                                  req.category_filter)
            /\ ~(req.show_summaries /\ Truthy(req.summary_table)) =>
                  /\ out.sql_query = sql_query(uncategorised)
                  /\ out.query_params = query_params(uncategorised)
            /\ (\E f \in Range(out.sql_query) : f \in {"s.category", "s.summary", "s.id"})
                  => \E i \in DOMAIN out.sql_query :
                        /\ i + 2 <= Len(out.sql_query)
                        /\ out.sql_query[i] = "LEFT JOIN"
                        /\ out.sql_query[i + 2] = "s"

\* C5 witness: a category is set while the join is disabled
WitnessCategoryWithoutJoin ==
    /\ Built
    /\ req.category_filter = "news"
    /\ ~req.show_summaries
    /\ req.query # <<>>

\* C6: exactly one INT64 parameter, named limit, holding the requested limit
\* and last in the list; exactly one LIMIT @limit clause in the statement.
OneLimitLast ==
    Built =>
        /\ Cardinality({i \in DOMAIN out.query_params :
                           out.query_params[i].type = "INT64"}) = 1
        /\ Cardinality({i \in DOMAIN out.query_params :
                           out.query_params[i].name = "limit"}) = 1
        /\ Last(out.query_params) = ScalarQueryParameter("limit", "INT64", req.limit)
        /\ Count(out.sql_query, "LIMIT") = 1
        /\ Count(out.sql_query, "@limit") = 1
        /\ \E i \in DOMAIN out.sql_query :
              /\ i < Len(out.sql_query)
              /\ out.sql_query[i] = "LIMIT"
              /\ out.sql_query[i + 1] = "@limit"

\* C6 witness: every filter present, join enabled, the largest limit
WitnessLimitAfterAllFilters ==
    /\ Built
    /\ req.limit = SliderMax
    /\ req.show_summaries
    /\ Len(out.query_params) = 8

----------------------------------------------------------------------------
(* Statements about the session, checked under Spec *)

Locked ==
    \/ ~Has(session_state, "password_correct")
    \/ session_state["password_correct"] = FALSE

Authenticated ==
    /\ Has(session_state, "password_correct")
    /\ session_state["password_correct"] = TRUE

BehindTheGate ==
    {"widgets_rendered", "client_created", "client_failed", "categories_query",
     "category_selectbox", "summary_check_query", "search_query", "cache_hit",
     "query_error", "results_stored", "export_pressed", "download_offered",
     "export_warning"}

\* C7: a run of a session whose password_correct is absent or False shows the
\* password input again and stops at the gate: it creates no client, issues
\* no category, summary-check or search query, stores no results and offers
\* no export; nothing of the page behind the gate has ever run.
GateBlocksEverything ==
    (runLog # {} /\ Locked) =>
        /\ {"password_prompt", "stopped"} \subseteq runLog
        /\ runLog \cap BehindTheGate = {}
        /\ Has(session_state, "password")
        /\ ~Has(session_state, "results_df")
        /\ client = "none"
        /\ out = NoCall
        /\ download = NoDownload

\* C7 witness: a wrong password was entered and the gate is shown again
WitnessWrongPassword ==
    /\ Has(session_state, "password_correct")
    /\ session_state["password_correct"] = FALSE
    /\ session_state["password"] = "letmein"
    /\ "password_prompt" \in runLog

\* C8: once an entry has matched, password_correct stays True through every
\* later run, no later run shows the password input, and the entered password
\* is gone from the session state from the moment of success on.
PasswordCorrectPersists ==
    [][/\ Authenticated => (Authenticated' /\ "password_prompt" \notin runLog')
       /\ Authenticated' => ~Has(session_state', "password")]_vars

\* C8 witness: an authenticated session in which an export was requested in a
\* run whose search failed
WitnessAuthenticatedLater ==
    /\ Authenticated
    /\ {"export_pressed", "export_warning", "query_error"} \subseteq runLog

\* C9: a run in which the data store fails to execute the search leaves the
\* empty frame in session_state.results_df, whatever was stored before.
FailedSearchClearsResults ==
    "query_error" \in runLog =>
        /\ Has(session_state, "results_df")
        /\ session_state["results_df"] = EmptyDataFrame

\* C9 witness: the failing run offered the earlier, non-empty result set for
\* download before its own search failed
WitnessFailureReplacesRows ==
    /\ "query_error" \in runLog
    /\ download # NoDownload
    /\ Empty(session_state["results_df"])

\* C10: in a run with the export button pressed a download is offered iff the
\* session holds a non-empty result set stored by an earlier run, the data
\* offered is the CSV of exactly that set, and otherwise the export is
\* refused with the warning and nothing is offered.
ExportOffersStoredResults ==
    [][("export_pressed" \in runLog') =>
          LET stored == /\ Has(session_state, "results_df")
                        /\ Len(session_state["results_df"].rows) > 0
          IN  /\ ("download_offered" \in runLog') <=> stored
              /\ (download' # NoDownload) <=> stored
              /\ stored =>
                    /\ download'[1] = session_state["results_df"].columns
                    /\ Len(download') = 1 + Len(session_state["results_df"].rows)
                    /\ \A i \in DOMAIN session_state["results_df"].rows :
                          download'[i + 1] = <<session_state["results_df"].rows[i]>>
              /\ ~stored => "export_warning" \in runLog']_vars

\* C10 witness: a download of a stored set with rows was offered in a run
\* whose own search returned nothing
WitnessDownloadOffered ==
    /\ "download_offered" \in runLog
    /\ Len(download) > 1
    /\ Len(session_state["results_df"].rows) = 0
    /\ "query_error" \notin runLog

====
